---- MODULE Spec2Model ----
(***************************************************************************)
(* rslurp: concurrent bulk downloader (rslurp.go).                         *)
(*                                                                         *)
(* The main goroutine runs main -> downloadDirs -> downloadFiles: it       *)
(* starts numWorkers slurper goroutines, pushes one order per file on the  *)
(* orders channel, closes it and then runs the progress loop, a select     *)
(* over the interrupt channel, the head of the done slice and the timer.   *)
(* Each slurper ranges over orders, calls slurp and either sends a         *)
(* fileDone message on the ui channel or adds one to errorCount.           *)
(*                                                                         *)
(* When main returns or calls os.Exit the process ends, and with it every  *)
(* goroutine: no action is enabled once mpc is "exit0" or "exit1".         *)
(*                                                                         *)
(* The fileout package and uiStart are not part of rslurp.go; the sink     *)
(* operations and the ui channel are modelled from the specification.      *)
(***************************************************************************)
EXTENDS Integers, Sequences, FiniteSets

\* ---------------------------------------------------------------- bounds
MaxWorkers == 2
MaxOrders == 2
MaxLen == 2
MaxLoad == 4

\* ------------------------------------------------------ program constants
QueueCap == 1000
StatusOK == 200
StatusPartialContent == 206
StatusRequestedRangeNotSatisfiable == 416
OtherStatuses == {404}
UnknownLength == 0 - 1
Absent == 0 - 1
NoRange == 0 - 1

Workers == 1..MaxWorkers
Orders == 1..MaxOrders

VARIABLES
    numWorkers,   \* *numWorkers flag
    numFiles,     \* len(files)
    tarOut,       \* *tarOut flag
    dryRun,       \* *dryRun flag
    remote,       \* length of the content the server holds for each order
    mpc,          \* position of the main goroutine
    pushed,       \* number of orders the dispatcher has sent
    orders,       \* the orders channel: queued order ids
    ordersClosed, \* close(orders) has run
    wpc,          \* position of each slurper goroutine
    cur,          \* the order a slurper is processing (0: none)
    xf,           \* locals of the slurp call of each slurper
    ord,          \* per order: how often taken, by whom, how reported
    disk,         \* size of each order's destination file (Absent: none)
    archive,      \* the tar stream: sequence of entries
    archLock,     \* worker inside the archive's critical section (0: none)
    counter,      \* the shared byte counter
    errorCount,   \* the run-wide failure counter
    done,         \* done[w]: slurper w has closed its done channel
    doneHead,     \* index of done[0] of the coordinator's done slice
    ccur,         \* the coordinator's cur: the total its bytes messages carry
    msgCount,     \* number of msg ("Killed by signal") messages sent
    finalSnap,    \* the all-workers-done snapshot has been sent
    uiBusy,       \* the ui goroutine is handling a message it received
    closeCalls,   \* calls of fileoutImpl.Close()
    fatal         \* log.Fatalf ended the run

vars == << numWorkers, numFiles, tarOut, dryRun, remote, mpc, pushed, orders,
           ordersClosed, wpc, cur, xf, ord, disk, archive, archLock,
           counter, errorCount, done, doneHead, ccur, msgCount,
           finalSnap, uiBusy, closeCalls, fatal >>

cfgVars == << numWorkers, numFiles, tarOut, dryRun, remote >>
mainVars == << mpc, pushed, doneHead, ccur, msgCount, finalSnap,
               closeCalls, fatal >>
queueVars == << orders, ordersClosed >>
workerVars == << wpc, cur, xf, ord, done >>
sinkVars == << disk, archive, archLock >>

\* ------------------------------------------------------------- helpers
NoXfer == [status |-> 0, clen |-> UnknownLength, remain |-> 0,
           stat |-> Absent, range |-> NoRange,
           flen |-> 0, creates |-> 0, appends |-> 0, read |-> 0]

NoOrd == [taken |-> 0, fileDone |-> 0, failed |-> 0, result |-> "none"]

Alive == mpc \notin {"exit0", "exit1"}

Started(w) == w \in 1..numWorkers

\* fileout: NormalFileOut supports partial files, TarOut does not.
HasPartial == ~tarOut

\* fileout: TarOut needs the size of an entry before its bytes.
FixedSizeOnly == tarOut

\* slurp: if *dryRun { return nil }.
SkipTransferNever == FALSE

SkipTransfer == dryRun

\* slurp: the Range header, set from os.Stat of the destination.
RangeHeader(o) ==
    IF HasPartial /\ disk[o] # Absent THEN disk[o] ELSE NoRange

\* slurp: the switch on resp.StatusCode.
StatusOutcomeAll416Fails(st) ==
    IF st \in {StatusOK, StatusPartialContent} THEN "body" ELSE "fail"

StatusOutcomeAnyBody(st) ==
    IF st = StatusRequestedRangeNotSatisfiable THEN "complete" ELSE "body"

StatusOutcome(st) ==
    IF st \in {StatusOK, StatusPartialContent} THEN "body"
    ELSE IF st = StatusRequestedRangeNotSatisfiable THEN "complete"
    ELSE "fail"

\* slurp: partial is set on 206 only.
PartialNever(st) == FALSE

Partial(st) == st = StatusPartialContent

\* slurp: the body goes to a temp file first.
UseTmpNever(w) == FALSE

UseTmp(w) == FixedSizeOnly /\ xf[w].clen < 0

\* readWrapper.Read: atomic.AddUint64(r.Counter, uint64(n)).
ReadAddStores(c, n) == n

ReadAdd(c, n) == c + n

\* The server's answer to a request: status and body length.
\*   kind "range":   honours Range (206, or 416 past the end)
\*   kind "norange": ignores Range (200 with the whole content)
ServerStatus(kind, rng, len) ==
    IF kind = "range" /\ rng # NoRange
    THEN IF rng < len THEN StatusPartialContent
         ELSE StatusRequestedRangeNotSatisfiable
    ELSE StatusOK

ServerBody(kind, rng, len) ==
    IF kind = "range" /\ rng # NoRange
    THEN IF rng < len THEN len - rng ELSE 0
    ELSE len

\* ------------------------------------------------------------------ Init
\* The state after flag.Parse: the flags, the files the listing resolves to,
\* the destination files already on disk and the content the server holds.
InitWith(NS, KS, DiskVals, Remotes) ==
    /\ numWorkers \in NS
    /\ numFiles \in KS
    /\ tarOut \in BOOLEAN
    /\ dryRun \in BOOLEAN
    /\ \E r \in Remotes :
          remote = [o \in Orders |-> IF o > numFiles \/ dryRun THEN 0 ELSE r[o]]
    /\ disk \in [Orders -> DiskVals \cup {Absent}]
    /\ \A o \in Orders : (tarOut \/ dryRun \/ o > numFiles) => disk[o] = Absent
    /\ mpc = "start"
    /\ pushed = 0
    /\ orders = << >>
    /\ ordersClosed = FALSE
    /\ wpc = [w \in Workers |-> "unstarted"]
    /\ cur = [w \in Workers |-> 0]
    /\ xf = [w \in Workers |-> NoXfer]
    /\ ord = [o \in Orders |-> NoOrd]
    /\ archive = << >>
    /\ archLock = 0
    /\ counter = 0
    /\ errorCount = 0
    /\ done = [w \in Workers |-> FALSE]
    /\ doneHead = 1
    /\ ccur = 0
    /\ msgCount = 0
    /\ finalSnap = FALSE
    /\ uiBusy = FALSE
    /\ closeCalls = 0
    /\ fatal = FALSE

\* The worker pool: up to MaxWorkers workers and MaxOrders files, at most
\* MaxLoad pairings of a worker with a file, all new downloads; the first
\* file has two bytes, the others one byte.
PoolRemote == [o \in Orders |-> IF o = 1 THEN 2 ELSE 1]

Init ==
    /\ InitWith(1..MaxWorkers, 0..MaxOrders, {Absent}, {PoolRemote})
    /\ numWorkers * numFiles <= MaxLoad

\* One worker and at most one file, with every size of the destination
\* file and of the remote content.
InitXfer == InitWith({1}, {0, 1}, 0..MaxLen, [Orders -> 0..MaxLen])

\* ------------------------------------------------------ main goroutine
\* main with flag.NArg() == 0: return, running the deferred Close.
MainNoArgs ==
    /\ mpc = "start"
    /\ numFiles = 0
    /\ mpc' = "exit0"
    /\ closeCalls' = closeCalls + 1
    /\ UNCHANGED << cfgVars, pushed, doneHead, ccur, msgCount,
                    finalSnap, fatal, queueVars, workerVars, sinkVars,
                    counter, errorCount, uiBusy >>

\* downloadDirs: list(d) succeeds for one more listing page and its files
\* are appended to files; "listed" is the loop after at least one page.
ListOk ==
    /\ mpc \in {"start", "listed"}
    /\ mpc' = "listed"
    /\ UNCHANGED << cfgVars, pushed, doneHead, ccur, msgCount,
                    finalSnap, closeCalls, fatal, queueVars, workerVars,
                    sinkVars, counter, errorCount, uiBusy >>

\* downloadDirs: list fails, main calls log.Fatalf (no deferred call runs).
\* The late variant lists a page after the download of an earlier page's
\* files has begun.
ListFailLate ==
    /\ mpc \in {"start", "listed", "dispatch"}
    /\ mpc' = "exit1"
    /\ fatal' = TRUE
    /\ UNCHANGED << cfgVars, pushed, doneHead, ccur, msgCount,
                    finalSnap, closeCalls, queueVars, workerVars, sinkVars,
                    counter, errorCount, uiBusy >>

ListFail ==
    /\ mpc \in {"start", "listed"}
    /\ mpc' = "exit1"
    /\ fatal' = TRUE
    /\ UNCHANGED << cfgVars, pushed, doneHead, ccur, msgCount,
                    finalSnap, closeCalls, queueVars, workerVars, sinkVars,
                    counter, errorCount, uiBusy >>

\* downloadDirs has listed every page; downloadFiles up to the
\* go slurper(...) loop.
StartWorkers ==
    /\ mpc = "listed"
    /\ mpc' = "dispatch"
    /\ wpc' = [w \in Workers |-> IF Started(w) THEN "idle" ELSE wpc[w]]
    /\ UNCHANGED << cfgVars, pushed, doneHead, ccur, msgCount,
                    finalSnap, closeCalls, fatal, queueVars, cur, xf, ord,
                    done, sinkVars, counter, errorCount, uiBusy >>

\* Dispatcher: orders <- order{url: fn, ui: uiChan}. The repeating variant
\* sends every order twice.
PushRepeats ==
    /\ mpc = "dispatch"
    /\ pushed < numFiles
    /\ Len(orders) < QueueCap
    /\ orders' = Append(Append(orders, pushed + 1), pushed + 1)
    /\ pushed' = pushed + 1
    /\ UNCHANGED << cfgVars, mpc, doneHead, ccur, msgCount,
                    finalSnap, closeCalls, fatal, ordersClosed, workerVars,
                    sinkVars, counter, errorCount, uiBusy >>

Push ==
    /\ mpc = "dispatch"
    /\ pushed < numFiles
    /\ Len(orders) < QueueCap
    /\ orders' = Append(orders, pushed + 1)
    /\ pushed' = pushed + 1
    /\ UNCHANGED << cfgVars, mpc, doneHead, ccur, msgCount,
                    finalSnap, closeCalls, fatal, ordersClosed, workerVars,
                    sinkVars, counter, errorCount, uiBusy >>

\* Dispatcher: the deferred close(orders); then the timer goroutine is
\* started and signal.Notify registers c. The forgetful variant leaves the
\* channel open.
CloseOrdersForgets ==
    /\ mpc = "dispatch"
    /\ pushed = numFiles
    /\ mpc' = "coord_top"
    /\ UNCHANGED << cfgVars, pushed, doneHead, ccur, msgCount,
                    finalSnap, closeCalls, fatal, queueVars, workerVars,
                    sinkVars, counter, errorCount, uiBusy >>

CloseOrders ==
    /\ mpc = "dispatch"
    /\ pushed = numFiles
    /\ ordersClosed' = TRUE
    /\ mpc' = "coord_top"
    /\ UNCHANGED << cfgVars, pushed, doneHead, ccur, msgCount,
                    finalSnap, closeCalls, fatal, orders, workerVars,
                    sinkVars, counter, errorCount, uiBusy >>

InCoordinator ==
    mpc \in {"coord_top", "coord_send", "coord_select", "coord_sig",
             "coord_final"}

\* Coordinator: cur := atomic.LoadUint64(&counter); the elapsed-time test
\* decides whether a bytes message is sent.
CoordLoad ==
    /\ mpc = "coord_top"
    /\ ccur' = counter
    /\ \E elapsed \in BOOLEAN :
          mpc' = IF elapsed THEN "coord_send" ELSE "coord_select"
    /\ UNCHANGED << cfgVars, pushed, doneHead, msgCount,
                    finalSnap, closeCalls, fatal, queueVars, workerVars,
                    sinkVars, counter, errorCount, uiBusy >>

\* Coordinator: uiChan <- uiMsg{bytes: &cur}.
CoordSend ==
    /\ mpc = "coord_send"
    /\ ~uiBusy
    /\ uiBusy' = TRUE
    /\ mpc' = "coord_select"
    /\ UNCHANGED << cfgVars, pushed, doneHead, ccur, msgCount, finalSnap,
                    closeCalls, fatal, queueVars, workerVars, sinkVars,
                    counter, errorCount >>

\* Coordinator: case sig := <-c. An interrupt is delivered to c and the
\* select takes it; one that waits in c while the coordinator is elsewhere
\* is taken like one that arrives when the coordinator is back at select.
CoordSig ==
    /\ mpc = "coord_select"
    /\ mpc' = "coord_sig"
    /\ UNCHANGED << cfgVars, pushed, doneHead, ccur, msgCount,
                    finalSnap, closeCalls, fatal, queueVars, workerVars,
                    sinkVars, counter, errorCount, uiBusy >>

\* Coordinator: uiChan <- uiMsg{msg: &s}; return.
CoordSigSendLoops ==
    /\ mpc = "coord_sig"
    /\ ~uiBusy
    /\ uiBusy' = TRUE
    /\ msgCount' = msgCount + 1
    /\ mpc' = "coord_top"
    /\ UNCHANGED << cfgVars, pushed, doneHead, ccur, finalSnap,
                    closeCalls, fatal, queueVars, workerVars, sinkVars,
                    counter, errorCount >>

CoordSigSendCancels ==
    /\ mpc = "coord_sig"
    /\ ~uiBusy
    /\ uiBusy' = TRUE
    /\ msgCount' = msgCount + 1
    /\ mpc' = "returned"
    /\ wpc' = [w \in Workers |->
                 IF wpc[w] \in {"start", "open", "copy", "second", "copy2"}
                 THEN "ret_err" ELSE wpc[w]]
    /\ archLock' = 0
    /\ UNCHANGED << cfgVars, pushed, doneHead, ccur, finalSnap, closeCalls,
                    fatal, queueVars, cur, xf, ord, done, disk, archive,
                    counter, errorCount >>

CoordSigSend ==
    /\ mpc = "coord_sig"
    /\ ~uiBusy
    /\ uiBusy' = TRUE
    /\ msgCount' = msgCount + 1
    /\ mpc' = "returned"
    /\ UNCHANGED << cfgVars, pushed, doneHead, ccur, finalSnap,
                    closeCalls, fatal, queueVars, workerVars, sinkVars,
                    counter, errorCount >>

\* Coordinator: case <-done[0]: done = done[1:]; on the last one load the
\* counter again. The first-only variant leaves the loop on the first done
\* channel it takes.
CoordDoneFirstOnly ==
    /\ mpc = "coord_select"
    /\ doneHead <= numWorkers
    /\ done[doneHead]
    /\ doneHead' = doneHead + 1
    /\ mpc' = "coord_final"
    /\ ccur' = counter
    /\ UNCHANGED << cfgVars, pushed, msgCount, finalSnap,
                    closeCalls, fatal, queueVars, workerVars, sinkVars,
                    counter, errorCount, uiBusy >>

\* The stale variant sends the snapshot of the loop's top as the final one.
CoordDoneStale ==
    /\ mpc = "coord_select"
    /\ doneHead <= numWorkers
    /\ done[doneHead]
    /\ doneHead' = doneHead + 1
    /\ mpc' = IF doneHead + 1 > numWorkers THEN "coord_final" ELSE "coord_top"
    /\ UNCHANGED << cfgVars, pushed, ccur, msgCount, finalSnap,
                    closeCalls, fatal, queueVars, workerVars, sinkVars,
                    counter, errorCount, uiBusy >>

CoordDone ==
    /\ mpc = "coord_select"
    /\ doneHead <= numWorkers
    /\ done[doneHead]
    /\ doneHead' = doneHead + 1
    /\ IF doneHead + 1 > numWorkers
       THEN mpc' = "coord_final" /\ ccur' = counter
       ELSE mpc' = "coord_top" /\ ccur' = ccur
    /\ UNCHANGED << cfgVars, pushed, msgCount, finalSnap,
                    closeCalls, fatal, queueVars, workerVars, sinkVars,
                    counter, errorCount, uiBusy >>

\* Coordinator: the final uiChan <- uiMsg{bytes: &cur}; return.
CoordFinalSend ==
    /\ mpc = "coord_final"
    /\ ~uiBusy
    /\ uiBusy' = TRUE
    /\ finalSnap' = TRUE
    /\ mpc' = "returned"
    /\ UNCHANGED << cfgVars, pushed, doneHead, ccur, msgCount, closeCalls,
                    fatal, queueVars, workerVars, sinkVars, counter,
                    errorCount >>

\* Coordinator: case <-timer. The timer goroutine offers a tick whenever
\* its sleep is over; elapsed time is not modelled, a tick may always come.
CoordTimer ==
    /\ mpc = "coord_select"
    /\ mpc' = "coord_top"
    /\ UNCHANGED << cfgVars, pushed, doneHead, ccur, msgCount,
                    finalSnap, closeCalls, fatal, queueVars, workerVars,
                    sinkVars, counter, errorCount, uiBusy >>

\* downloadFiles returns (the deferred uiCleanup runs), downloadDirs
\* returns nil; main: if errorCount > 0 { ...; os.Exit(1) }.
MainCheckIgnoresErrors ==
    /\ mpc = "returned"
    /\ mpc' = "mainret"
    /\ UNCHANGED << cfgVars, pushed, doneHead, ccur, msgCount,
                    finalSnap, closeCalls, fatal, queueVars, workerVars,
                    sinkVars, counter, errorCount, uiBusy >>

MainCheck ==
    /\ mpc = "returned"
    /\ mpc' = IF errorCount > 0 THEN "exit1" ELSE "mainret"
    /\ UNCHANGED << cfgVars, pushed, doneHead, ccur, msgCount,
                    finalSnap, closeCalls, fatal, queueVars, workerVars,
                    sinkVars, counter, errorCount, uiBusy >>

\* main returns: the deferred fileoutImpl.Close() runs, the process ends.
MainReturn ==
    /\ mpc = "mainret"
    /\ closeCalls' = closeCalls + 1
    /\ mpc' = "exit0"
    /\ UNCHANGED << cfgVars, pushed, doneHead, ccur, msgCount,
                    finalSnap, fatal, queueVars, workerVars, sinkVars,
                    counter, errorCount, uiBusy >>

\* ------------------------------------------------------- environment
\* The ui goroutine has handled the message it took from the ui channel
\* and is back at its receive; a send on the channel waits for that.
UiConsume ==
    /\ Alive
    /\ uiBusy
    /\ uiBusy' = FALSE
    /\ UNCHANGED << cfgVars, mainVars, queueVars, workerVars, sinkVars,
                    counter, errorCount >>

\* ---------------------------------------------------------------- sink
\* fileout Create: NormalFileOut truncates or creates the file; TarOut
\* enters the archive's critical section and writes the entry header.
CreateEnabled(w) == tarOut => archLock = 0

DiskAfterCreate(o) == [disk EXCEPT ![o] = 0]

ArchiveAfterCreate(o, size) ==
    Append(archive, [ord |-> o, declared |-> size, written |-> 0])

\* fileout Append: NormalFileOut opens the file positioned at its end;
\* TarOut has no append.
AppendWorks == ~tarOut

DiskAfterAppend(o) == [disk EXCEPT ![o] = IF @ = Absent THEN 0 ELSE @]

\* Write on the writer a sink handed out: a file grows; the tar stream
\* takes the bytes into the entry whose header was written last.
DiskAfterWrite(o, n) ==
    IF tarOut THEN disk ELSE [disk EXCEPT ![o] = @ + n]

ArchiveAfterWrite(n) ==
    IF tarOut /\ Len(archive) > 0
    THEN [archive EXCEPT ![Len(archive)].written = @ + n]
    ELSE archive

\* Close of the writer: TarOut leaves the critical section.
LockAfterClose(w) == IF archLock = w THEN 0 ELSE archLock

\* -------------------------------------------------------------- slurper
\* slurp returns res for the order of w; x is what the call did (the
\* locals of the body copy are dead).
Return(w, res, x) ==
    /\ wpc' = [wpc EXCEPT ![w] = IF res = "ok" THEN "ret_ok" ELSE "ret_err"]
    /\ ord' = [ord EXCEPT ![cur[w]].result = res]
    /\ xf' = [xf EXCEPT ![w] = [x EXCEPT !.clen = NoXfer.clen,
                                         !.remain = NoXfer.remain,
                                         !.flen = NoXfer.flen]]

\* slurper: for order := range orders (one receive). The peeking variant
\* leaves the order in the channel.
TakePeeks(w) ==
    /\ Alive
    /\ wpc[w] = "idle"
    /\ orders # << >>
    /\ ord[Head(orders)].taken < 2
    /\ cur' = [cur EXCEPT ![w] = Head(orders)]
    /\ ord' = [ord EXCEPT ![Head(orders)].taken = @ + 1]
    /\ wpc' = [wpc EXCEPT ![w] = "start"]
    /\ UNCHANGED << cfgVars, mainVars, queueVars, xf, done, sinkVars,
                    counter, errorCount, uiBusy >>

Take(w) ==
    /\ Alive
    /\ wpc[w] = "idle"
    /\ orders # << >>
    /\ orders' = Tail(orders)
    /\ cur' = [cur EXCEPT ![w] = Head(orders)]
    /\ ord' = [ord EXCEPT ![Head(orders)].taken = @ + 1]
    /\ wpc' = [wpc EXCEPT ![w] = "start"]
    /\ UNCHANGED << cfgVars, mainVars, ordersClosed, xf, done, sinkVars,
                    counter, errorCount, uiBusy >>

\* slurper: the range loop ends on the closed, empty channel; the deferred
\* close(done) runs. The early variant ends the loop on any empty channel.
WorkerDoneEarly(w) ==
    /\ Alive
    /\ wpc[w] = "idle"
    /\ orders = << >>
    /\ wpc' = [wpc EXCEPT ![w] = "exited"]
    /\ done' = [done EXCEPT ![w] = TRUE]
    /\ UNCHANGED << cfgVars, mainVars, queueVars, cur, xf, ord, sinkVars,
                    counter, errorCount, uiBusy >>

WorkerDone(w) ==
    /\ Alive
    /\ wpc[w] = "idle"
    /\ orders = << >>
    /\ ordersClosed
    /\ wpc' = [wpc EXCEPT ![w] = "exited"]
    /\ done' = [done EXCEPT ![w] = TRUE]
    /\ UNCHANGED << cfgVars, mainVars, queueVars, cur, xf, ord, sinkVars,
                    counter, errorCount, uiBusy >>

\* slurp: dry-run test, newRequest, os.Stat and Range header, client.Do,
\* switch on the status.
Request(w) ==
    /\ Alive
    /\ wpc[w] = "start"
    /\ UNCHANGED << cfgVars, mainVars, queueVars, cur, done, sinkVars,
                    counter, errorCount, uiBusy >>
    /\ IF SkipTransfer
       THEN Return(w, "ok", xf[w])
       ELSE \E kind \in {"range", "norange", "bad", "neterr"},
               declared \in BOOLEAN :
            LET o    == cur[w]
                len  == remote[o]
                rng  == RangeHeader(o)
                st   == IF kind = "bad" THEN CHOOSE s \in OtherStatuses : TRUE
                        ELSE ServerStatus(kind, rng, len)
                body == IF kind = "bad" THEN 0 ELSE ServerBody(kind, rng, len)
                sent == [xf[w] EXCEPT !.stat = IF HasPartial THEN disk[o]
                                                ELSE Absent,
                                      !.range = rng]
            IN  /\ kind \in {"bad", "neterr"} => declared
                /\ IF kind = "neterr"
                   THEN Return(w, "err", sent)
                   ELSE LET got == [sent EXCEPT !.status = st,
                                                !.clen = IF declared THEN body
                                                         ELSE UnknownLength,
                                                !.remain = body]
                        IN  CASE StatusOutcome(st) = "body" ->
                                   /\ wpc' = [wpc EXCEPT ![w] = "open"]
                                   /\ xf' = [xf EXCEPT ![w] = got]
                                   /\ ord' = ord
                              [] StatusOutcome(st) = "complete" ->
                                   Return(w, "ok", got)
                              [] OTHER -> Return(w, "err", got)

\* slurp: open what the body is read to: a temp file, or the destination
\* through Append (partial) or Create.
Open(w) ==
    /\ Alive
    /\ wpc[w] = "open"
    /\ UNCHANGED << cfgVars, mainVars, queueVars, cur, done, counter,
                    errorCount, uiBusy >>
    /\ \E ok \in BOOLEAN :
       LET o == cur[w]
           app == [xf[w] EXCEPT !.appends = @ + 1]
           cre == [xf[w] EXCEPT !.creates = @ + 1]
       IN
       IF UseTmp(w)
       THEN /\ UNCHANGED sinkVars
            /\ IF ok THEN /\ wpc' = [wpc EXCEPT ![w] = "copy"]
                          /\ UNCHANGED << xf, ord >>
                     ELSE Return(w, "err", xf[w])
       ELSE IF Partial(xf[w].status)
       THEN IF ok /\ AppendWorks
            THEN /\ disk' = DiskAfterAppend(o)
                 /\ wpc' = [wpc EXCEPT ![w] = "copy"]
                 /\ xf' = [xf EXCEPT ![w] = app]
                 /\ UNCHANGED << ord, archive, archLock >>
            ELSE /\ Return(w, "err", app)
                 /\ UNCHANGED sinkVars
       ELSE /\ CreateEnabled(w)
            /\ IF ok
               THEN /\ IF tarOut
                       THEN /\ archive' = ArchiveAfterCreate(o, xf[w].clen)
                            /\ archLock' = w
                            /\ disk' = disk
                       ELSE /\ disk' = DiskAfterCreate(o)
                            /\ UNCHANGED << archive, archLock >>
                    /\ wpc' = [wpc EXCEPT ![w] = "copy"]
                    /\ xf' = [xf EXCEPT ![w] = cre]
                    /\ ord' = ord
               ELSE /\ Return(w, "err", cre)
                    /\ UNCHANGED sinkVars

\* slurp: one round of io.Copy(readTo, r): Read n bytes through the
\* readWrapper, Write them.
CopyRead(w) ==
    /\ Alive
    /\ wpc[w] = "copy"
    /\ xf[w].remain > 0
    /\ UNCHANGED << cfgVars, mainVars, queueVars, cur, done, errorCount,
                    uiBusy >>
    /\ \E n \in 1..xf[w].remain, wok \in BOOLEAN :
       /\ counter' = ReadAdd(counter, n)
       /\ IF wok
          THEN /\ xf' = [xf EXCEPT ![w].remain = @ - n, ![w].read = @ + n,
                                   ![w].flen = @ + n]
               /\ IF UseTmp(w)
                  THEN UNCHANGED << disk, archive >>
                  ELSE /\ disk' = DiskAfterWrite(cur[w], n)
                       /\ archive' = ArchiveAfterWrite(n)
               /\ UNCHANGED << wpc, ord, archLock >>
          ELSE /\ Return(w, "err", [xf[w] EXCEPT !.read = @ + n])
               /\ archLock' = LockAfterClose(w)
               /\ UNCHANGED << disk, archive >>

\* slurp: Read fails; io.Copy returns the error, the deferred Close runs.
CopyFail(w) ==
    /\ Alive
    /\ wpc[w] = "copy"
    /\ Return(w, "err", xf[w])
    /\ archLock' = LockAfterClose(w)
    /\ UNCHANGED << cfgVars, mainVars, queueVars, cur, done, disk,
                    archive, counter, errorCount, uiBusy >>

\* slurp: Read returns EOF; with a temp file go on to the second pass,
\* otherwise return nil (the deferred Close runs). The hasty variant ends
\* the copy before the body is exhausted.
CopyEOFHasty(w) ==
    /\ Alive
    /\ wpc[w] = "copy"
    /\ IF UseTmp(w)
       THEN /\ wpc' = [wpc EXCEPT ![w] = "second"]
            /\ UNCHANGED << xf, ord, archLock >>
       ELSE /\ Return(w, "ok", xf[w])
            /\ archLock' = LockAfterClose(w)
    /\ UNCHANGED << cfgVars, mainVars, queueVars, cur, done, disk,
                    archive, counter, errorCount, uiBusy >>

CopyEOF(w) ==
    /\ Alive
    /\ wpc[w] = "copy"
    /\ xf[w].remain = 0
    /\ IF UseTmp(w)
       THEN /\ wpc' = [wpc EXCEPT ![w] = "second"]
            /\ UNCHANGED << xf, ord, archLock >>
       ELSE /\ Return(w, "ok", xf[w])
            /\ archLock' = LockAfterClose(w)
    /\ UNCHANGED << cfgVars, mainVars, queueVars, cur, done, disk,
                    archive, counter, errorCount, uiBusy >>

\* slurp: tmpf.Seek(0, 0); fileoutImpl.Create(fullFilename, fileLength).
Second(w) ==
    /\ Alive
    /\ wpc[w] = "second"
    /\ UNCHANGED << cfgVars, mainVars, queueVars, cur, done, counter,
                    errorCount, uiBusy >>
    /\ \E res \in {"seekerr", "createerr", "ok"} :
       LET o == cur[w]
           cre == [xf[w] EXCEPT !.creates = @ + 1]
       IN
       IF res = "seekerr"
       THEN /\ Return(w, "err", xf[w])
            /\ UNCHANGED sinkVars
       ELSE /\ CreateEnabled(w)
            /\ IF res = "ok"
               THEN /\ IF tarOut
                       THEN /\ archive' = ArchiveAfterCreate(o, xf[w].flen)
                            /\ archLock' = w
                            /\ disk' = disk
                       ELSE /\ disk' = DiskAfterCreate(o)
                            /\ UNCHANGED << archive, archLock >>
                    /\ wpc' = [wpc EXCEPT ![w] = "copy2"]
                    /\ xf' = [xf EXCEPT ![w] = cre]
                    /\ ord' = ord
               ELSE /\ Return(w, "err", cre)
                    /\ UNCHANGED sinkVars

\* slurp: io.Copy(of, tmpf) and return; the deferred Closes run. The
\* counting variant reads the temp file through the readWrapper.
Copy2Counts(w) ==
    /\ Alive
    /\ wpc[w] = "copy2"
    /\ UNCHANGED << cfgVars, mainVars, queueVars, cur, done, errorCount,
                    uiBusy >>
    /\ archLock' = LockAfterClose(w)
    /\ counter' = ReadAdd(counter, xf[w].flen)
    /\ \E ok \in BOOLEAN :
       IF ok
       THEN /\ disk' = DiskAfterWrite(cur[w], xf[w].flen)
            /\ archive' = ArchiveAfterWrite(xf[w].flen)
            /\ Return(w, "ok", xf[w])
       ELSE /\ UNCHANGED << disk, archive >>
            /\ Return(w, "err", xf[w])

Copy2(w) ==
    /\ Alive
    /\ wpc[w] = "copy2"
    /\ UNCHANGED << cfgVars, mainVars, queueVars, cur, done, counter,
                    errorCount, uiBusy >>
    /\ archLock' = LockAfterClose(w)
    /\ \E ok \in BOOLEAN :
       IF ok
       THEN /\ disk' = DiskAfterWrite(cur[w], xf[w].flen)
            /\ archive' = ArchiveAfterWrite(xf[w].flen)
            /\ Return(w, "ok", xf[w])
       ELSE /\ UNCHANGED << disk, archive >>
            /\ Return(w, "err", xf[w])

\* slurper: slurp returned an error: log, atomic.AddUint32(&errorCount, 1),
\* next order. The halting variant leaves the loop instead.
FailHalts(w) ==
    /\ Alive
    /\ wpc[w] = "ret_err"
    /\ wpc' = [wpc EXCEPT ![w] = "exited"]
    /\ done' = [done EXCEPT ![w] = TRUE]
    /\ cur' = [cur EXCEPT ![w] = 0]
    /\ xf' = [xf EXCEPT ![w] = NoXfer]
    /\ UNCHANGED << cfgVars, mainVars, queueVars, ord, sinkVars, counter,
                    errorCount, uiBusy >>

Fail(w) ==
    /\ Alive
    /\ wpc[w] = "ret_err"
    /\ errorCount' = errorCount + 1
    /\ ord' = [ord EXCEPT ![cur[w]].failed = @ + 1]
    /\ wpc' = [wpc EXCEPT ![w] = "idle"]
    /\ cur' = [cur EXCEPT ![w] = 0]
    /\ xf' = [xf EXCEPT ![w] = NoXfer]
    /\ UNCHANGED << cfgVars, mainVars, queueVars, done, sinkVars, counter,
                    uiBusy >>

\* slurper: slurp returned nil: order.ui <- uiMsg{fileDone: &s}.
SendDone(w) ==
    /\ Alive
    /\ wpc[w] = "ret_ok"
    /\ ~uiBusy
    /\ uiBusy' = TRUE
    /\ ord' = [ord EXCEPT ![cur[w]].fileDone = @ + 1]
    /\ wpc' = [wpc EXCEPT ![w] = "idle"]
    /\ cur' = [cur EXCEPT ![w] = 0]
    /\ xf' = [xf EXCEPT ![w] = NoXfer]
    /\ UNCHANGED << cfgVars, mainVars, queueVars, done, sinkVars, counter,
                    errorCount >>

\* ------------------------------------------------------- specification
Next ==
    \/ MainNoArgs
    \/ ListOk
    \/ ListFail
    \/ StartWorkers
    \/ Push
    \/ CloseOrders
    \/ CoordLoad
    \/ CoordSend
    \/ CoordSig
    \/ CoordSigSend
    \/ CoordDone
    \/ CoordFinalSend
    \/ CoordTimer
    \/ MainCheck
    \/ MainReturn
    \/ UiConsume
    \/ \E w \in Workers : Take(w)
    \/ \E w \in Workers : WorkerDone(w)
    \/ \E w \in Workers : Request(w)
    \/ \E w \in Workers : Open(w)
    \/ \E w \in Workers : CopyRead(w)
    \/ \E w \in Workers : CopyFail(w)
    \/ \E w \in Workers : CopyEOF(w)
    \/ \E w \in Workers : Second(w)
    \/ \E w \in Workers : Copy2(w)
    \/ \E w \in Workers : Fail(w)
    \/ \E w \in Workers : SendDone(w)

Spec == Init /\ [][Next]_vars

SpecXfer == InitXfer /\ [][Next]_vars

\* Runs in which no interrupt arrives: the steps of Next without the
\* interrupt branch of the select, from the worker pool with one-byte files.
QuietMain ==
    \/ MainNoArgs
    \/ ListOk
    \/ ListFail
    \/ StartWorkers
    \/ Push
    \/ CloseOrders
    \/ CoordLoad
    \/ CoordSend
    \/ CoordDone
    \/ CoordFinalSend
    \/ CoordTimer
    \/ MainCheck
    \/ MainReturn

WorkerStep(w) ==
    \/ Take(w)
    \/ WorkerDone(w)
    \/ Request(w)
    \/ Open(w)
    \/ CopyRead(w)
    \/ CopyFail(w)
    \/ CopyEOF(w)
    \/ Second(w)
    \/ Copy2(w)
    \/ Fail(w)
    \/ SendDone(w)

NextQuiet ==
    \/ QuietMain
    \/ UiConsume
    \/ \E w \in Workers : WorkerStep(w)

InitLive ==
    /\ InitWith(1..MaxWorkers, 0..MaxOrders, {Absent}, {[o \in Orders |-> 1]})
    /\ numWorkers * numFiles <= MaxLoad

\* Scheduling. Every goroutine that can take a step again and again takes
\* one: a runnable goroutine is scheduled, every request, read and write
\* returns, and a goroutine that waits to send on the ui channel or to
\* enter the archive's critical section is served in turn although others
\* compete (channel and mutex wait queues), so fairness is strong. The
\* select picks at random among its ready cases, so a done channel that is
\* ready at every visit is taken in the end. The ui goroutine keeps
\* receiving.
Fairness ==
    /\ SF_vars(QuietMain)
    /\ SF_vars(CoordDone)
    /\ WF_vars(UiConsume)
    /\ \A w \in Workers : SF_vars(WorkerStep(w))

SpecLive == InitLive /\ [][NextQuiet]_vars /\ Fairness

TypeOK ==
    /\ numWorkers \in 1..MaxWorkers
    /\ numFiles \in 0..MaxOrders
    /\ counter \in 0..(MaxOrders * MaxLen)
    /\ errorCount \in 0..MaxOrders
    /\ uiBusy \in BOOLEAN
    /\ Len(orders) <= QueueCap
    /\ \A w \in Workers : cur[w] \in 0..MaxOrders

\* ============================================================ properties
Files == 1..numFiles

Exited == ~Alive

WorkersStarted == mpc # "start" /\ ~fatal /\ wpc[1] # "unstarted"

\* The coordinator has taken the last done channel (all workers done).
AllWorkersDone == doneHead > numWorkers

\* The coordinator has left its loop through the interrupt branch.
Interrupted == msgCount > 0

Reports(o) == ord[o].fileDone + ord[o].failed

InFlight(w) == wpc[w] \in {"start", "open", "copy", "second", "copy2"}

\* Worker w holds a writer of the archive: from Create to its Close.
InSection(w) ==
    tarOut /\ ((wpc[w] = "copy" /\ ~UseTmp(w)) \/ wpc[w] = "copy2")

Unattended(o) == \A w \in Workers : cur[w] # o

\* Sum of f over the finite set S.
RECURSIVE Sum(_, _)
Sum(f, S) ==
    IF S = {} THEN 0
    ELSE LET x == CHOOSE y \in S : TRUE
         IN  f[x] + Sum(f, S \ {x})

\* ------------------------------------------------------------------- C1
\* C1 as stated: in every run, also one ended by an interrupt, every order
\* has been taken by exactly one worker and reported exactly once when the
\* process exits.
C1_ExactlyOnceEveryRun ==
    /\ \A o \in Orders : ord[o].taken <= 1 /\ Reports(o) <= 1
    /\ (Exited /\ WorkersStarted) =>
          \A o \in Files : ord[o].taken = 1 /\ Reports(o) = 1

\* C1 amended: no order is ever taken by more than one worker or reported
\* more than once, a report is one fileDone message or one increment of
\* errorCount for an order that was taken, and when the coordinator has seen
\* all workers done every order has been taken once and reported once.
C1_ExactlyOnce ==
    /\ \A o \in Orders :
          /\ ord[o].taken <= 1
          /\ Reports(o) <= 1
          /\ Reports(o) = 1 => ord[o].taken = 1
          /\ o \notin Files => ord[o].taken = 0
    /\ AllWorkersDone =>
          \A o \in Files : ord[o].taken = 1 /\ Reports(o) = 1

C1_Witness ==
    /\ finalSnap
    /\ numWorkers = MaxWorkers
    /\ numFiles = MaxOrders
    /\ ord[1].fileDone = 1
    /\ ord[2].failed = 1

\* ------------------------------------------------------------------- C2
\* C2: a failed order gets no fileDone message and is counted once in
\* errorCount as soon as its worker has left it; the worker leaves its loop
\* only on the closed, empty queue; when all workers are done errorCount is
\* the number of orders whose slurp returned an error and every other order
\* has its fileDone message.
C2_FailureIsolation ==
    /\ \A o \in Orders :
          /\ ord[o].fileDone > 0 => ord[o].result = "ok"
          /\ ord[o].failed > 0 => ord[o].result = "err"
          /\ (ord[o].result = "err" /\ Unattended(o)) => ord[o].failed = 1
    /\ errorCount = Cardinality({o \in Orders : ord[o].failed > 0})
    /\ \A w \in Workers : done[w] => (ordersClosed /\ orders = << >>)
    /\ AllWorkersDone =>
          /\ errorCount = Cardinality({o \in Files : ord[o].result = "err"})
          /\ \A o \in Files : ord[o].result = "ok" => ord[o].fileDone = 1
          /\ \A o \in Files : ord[o].result # "none"

C2_Witness ==
    /\ finalSnap
    /\ numWorkers = 1
    /\ numFiles = MaxOrders
    /\ ord[1].failed = 1
    /\ errorCount = 1
    /\ \A o \in Files : o # 1 => ord[o].fileDone = 1

C4_CloseOnceAfterWorkers ==
    /\ closeCalls <= 1
    /\ (closeCalls = 1 /\ WorkersStarted /\ ~Interrupted) =>
          \A w \in Workers : Started(w) => wpc[w] = "exited"
    /\ (Exited /\ finalSnap) => closeCalls = 1

\* ------------------------------------------------------------------- C5
\* C5: with the direct sink and an existing destination file of size S the
\* request carries Range: bytes=S-; a 206 comes only for S below the remote
\* length L, and when slurp then returns nil it has opened the file once,
\* with Append, and the file has L bytes; while the body is copied the file
\* has S plus the bytes written so far.
C5_Resume ==
    \A w \in Workers :
       (cur[w] # 0 /\ ~tarOut /\ ~dryRun /\ wpc[w] # "start"
           /\ xf[w].stat # Absent) =>
          /\ xf[w].range = xf[w].stat
          /\ xf[w].status = StatusPartialContent =>
                /\ xf[w].stat < remote[cur[w]]
                /\ wpc[w] = "copy" =>
                      disk[cur[w]] = xf[w].stat + xf[w].flen
                /\ wpc[w] = "ret_ok" =>
                      /\ xf[w].appends = 1
                      /\ xf[w].creates = 0
                      /\ disk[cur[w]] = remote[cur[w]]

C5_Witness ==
    /\ ~tarOut
    /\ wpc[1] = "ret_ok"
    /\ xf[1].status = StatusPartialContent
    /\ xf[1].stat = 1
    /\ remote[1] = MaxLen
    /\ disk[1] = MaxLen

\* ------------------------------------------------------------------- C6
\* C6: on status 416 slurp returns nil having called neither Create nor
\* Append and read no byte; the byte counter (this is the only order) is 0,
\* the destination file has the size os.Stat saw, errorCount is 0, and once
\* the worker has left the order its fileDone message has been sent.
C6_AlreadyComplete ==
    /\ \A w \in Workers :
          xf[w].status = StatusRequestedRangeNotSatisfiable =>
             /\ wpc[w] = "ret_ok"
             /\ ord[cur[w]].result = "ok"
             /\ xf[w].creates = 0
             /\ xf[w].appends = 0
             /\ xf[w].read = 0
             /\ counter = 0
             /\ disk[cur[w]] = xf[w].stat
             /\ ord[cur[w]].failed = 0
             /\ errorCount = 0
    /\ \A o \in Orders :
          (ord[o].result = "ok" /\ Unattended(o)) =>
             (ord[o].fileDone = 1 /\ ord[o].failed = 0)

C6_Witness ==
    /\ wpc[1] = "ret_ok"
    /\ xf[1].status = StatusRequestedRangeNotSatisfiable
    /\ xf[1].stat = MaxLen
    /\ disk[1] = MaxLen

\* ------------------------------------------------------------------- C7
\* C7: no step decreases the byte counter, and no step decreases the
\* coordinator's snapshot cur, the total every bytes message carries.
C7_Monotone ==
    [][counter' >= counter /\ ccur' >= ccur]_vars

\* Both workers have read, and a snapshot was taken in between.
C7_Witness ==
    /\ numWorkers = MaxWorkers
    /\ counter = PoolRemote[1] + PoolRemote[2]
    /\ ccur > 0
    /\ ccur < counter
    /\ \A w \in Workers : wpc[w] = "copy"

\* ------------------------------------------------------------------- C8
\* C8 as stated: whichever way the coordinator loop ended, the process
\* exits 0 only with no failed order and exits 1 only with a failed order.
C8_ExitStatusEveryRun ==
    ~fatal =>
       /\ mpc = "exit0" => errorCount = 0
       /\ mpc = "exit1" => errorCount > 0

\* C8 amended: exit 1 only with a counted failure; when the loop ended with
\* all workers done, exit 0 means every order has its fileDone message and
\* exit 1 means an order failed.
C8_ExitStatus ==
    /\ (mpc = "exit1" /\ ~fatal) => errorCount > 0
    /\ (mpc = "exit0" /\ finalSnap) =>
          /\ errorCount = 0
          /\ \A o \in Files : ord[o].fileDone = 1
    /\ (mpc = "exit1" /\ finalSnap) =>
          \E o \in Files : ord[o].failed = 1 /\ ord[o].result = "err"

C8_Witness ==
    /\ mpc = "exit1"
    /\ finalSnap
    /\ numFiles = MaxOrders
    /\ errorCount = 1
    /\ \E o \in Files : ord[o].fileDone = 1

\* ------------------------------------------------------------------- C9
\* C9: once the select has taken the interrupt the coordinator sends one msg
\* message and returns: it never sends a second one, never goes back to the
\* loop, takes no further done channel and never sends the final snapshot.
C9_Interrupt ==
    /\ msgCount <= 1
    /\ mpc = "coord_sig" => (msgCount = 0 /\ ~finalSnap)
    /\ Interrupted =>
          /\ ~finalSnap
          /\ mpc \in {"returned", "mainret", "exit0", "exit1"}
    /\ finalSnap => (AllWorkersDone /\ ~Interrupted)
    /\ (mpc = "coord_sig" \/ Interrupted) => doneHead <= numWorkers

\* Returned on the interrupt with both workers still in a transfer.
C9_Witness ==
    /\ mpc = "returned"
    /\ msgCount = 1
    /\ doneHead = 1
    /\ numWorkers = MaxWorkers
    /\ \A w \in Workers : InFlight(w)

\* ------------------------------------------------------------------ C10
\* C10 as stated: after an interrupt every transfer in flight is run to its
\* end, so the process does not exit with a worker inside a transfer.
C10_InFlightCompletes ==
    (Exited /\ Interrupted) => \A w \in Workers : ~InFlight(w)

\* C10 amended: no step of the main goroutine from the interrupt branch on
\* (the msg message, the return, the errorCount test, the deferred Close)
\* touches a worker, the queue, the sink or the byte counter.
C10_NoCancellation ==
    [][(mpc \in {"coord_sig", "returned", "mainret"} /\ mpc' # mpc) =>
          UNCHANGED << wpc, cur, xf, ord, done, orders, ordersClosed,
                       disk, archive, archLock, counter, errorCount >>]_vars

\* The process has exited after an interrupt with a body half copied.
C10_Witness ==
    /\ Exited
    /\ Interrupted
    /\ \E w \in Workers :
          wpc[w] = "copy" /\ xf[w].read > 0 /\ xf[w].remain > 0

C12_FatalListing ==
    fatal =>
       /\ mpc = "exit1"
       /\ \A w \in Workers :
             wpc[w] = "unstarted" /\ cur[w] = 0 /\ xf[w] = NoXfer /\ ~done[w]
       /\ pushed = 0
       /\ orders = << >>
       /\ ~ordersClosed
       /\ \A o \in Orders : ord[o] = NoOrd /\ disk[o] = Absent
       /\ archive = << >>
       /\ archLock = 0
       /\ counter = 0
       /\ errorCount = 0
       /\ ~finalSnap
       /\ msgCount = 0

\* A listing failed although there were files to fetch with both sinks.
C12_Witness ==
    /\ fatal
    /\ mpc = "exit1"
    /\ numFiles = MaxOrders
    /\ numWorkers = MaxWorkers

\* ------------------------------------------------------------------ C13
\* C13: with -n the orders are sent and taken as usual, but no slurp call
\* gets past its first test: no worker ever holds a response, a sink writer
\* or a temp file, no file or archive entry exists, the byte counter and
\* errorCount stay 0, no order fails, every order a worker has left has its
\* fileDone message, and when all workers are done every order has one.
C13_DryRun ==
    dryRun =>
       /\ \A w \in Workers :
             /\ wpc[w] \in {"unstarted", "idle", "start", "ret_ok", "exited"}
             /\ xf[w] = NoXfer
       /\ \A o \in Orders :
             /\ disk[o] = Absent
             /\ ord[o].result \in {"none", "ok"}
             /\ ord[o].failed = 0
             /\ ord[o].taken <= 1
             /\ (ord[o].taken = 1 /\ Unattended(o)) => ord[o].fileDone = 1
       /\ archive = << >>
       /\ archLock = 0
       /\ counter = 0
       /\ errorCount = 0
       /\ ccur = 0
       /\ AllWorkersDone =>
             /\ pushed = numFiles
             /\ \A o \in Files : ord[o].taken = 1 /\ ord[o].fileDone = 1

\* A dry run of the whole pool has ended with every order reported.
C13_Witness ==
    /\ dryRun
    /\ finalSnap
    /\ mpc = "exit0"
    /\ numFiles = MaxOrders
    /\ numWorkers = MaxWorkers
    /\ \A o \in Files : ord[o].fileDone = 1

\* ------------------------------------------------------------------ C14
\* C14: a worker whose done channel is closed was started, has left its
\* loop and holds no order, and the queue is closed and empty; the close is
\* one step, taken between two orders (never inside slurp or before the
\* report of an order) on the closed, empty queue; a closed done channel
\* stays closed and its worker takes no further step, so it takes no order
\* and cannot close again.
C14_WorkerTermination ==
    /\ [](\A w \in Workers :
             done[w] =>
                /\ Started(w)
                /\ wpc[w] = "exited"
                /\ cur[w] = 0
                /\ xf[w] = NoXfer
                /\ ordersClosed
                /\ orders = << >>)
    /\ [][\A w \in Workers :
             /\ done[w] =>
                   (done'[w] /\ wpc'[w] = wpc[w] /\ cur'[w] = cur[w]
                      /\ xf'[w] = xf[w])
             /\ (done'[w] /\ ~done[w]) =>
                   (wpc[w] = "idle" /\ cur[w] = 0 /\ ordersClosed
                      /\ orders = << >> /\ orders' = orders)
             /\ (wpc[w] = "exited") = done[w]
          ]_vars

\* One worker has closed its done channel while another is still copying.
C14_Witness ==
    \E w1, w2 \in Workers :
       /\ done[w1]
       /\ wpc[w2] = "copy"
       /\ xf[w2].read > 0
       /\ ord[1].taken = 1
       /\ ord[2].taken = 1

\* ------------------------------------------------------------------ C15
\* C15: in one slurp call Create and Append are called at most once
\* together; none is called before a response, on 416 (slurp returns nil)
\* or on a status other than 200, 206 and 416 (slurp returns an error); a
\* 200 never leads to Append and a 206 written directly never to Create;
\* while the body is copied directly the destination was opened by Create
\* on 200 and by Append on 206, while it is copied to the temp file nothing
\* was opened, and the second pass has called Create once.
C15_SingleOpen ==
    \A w \in Workers :
       cur[w] # 0 =>
          /\ xf[w].creates + xf[w].appends <= 1
          /\ wpc[w] \in {"start", "open"} =>
                (xf[w].creates = 0 /\ xf[w].appends = 0)
          /\ xf[w].status = 0 => (xf[w].creates = 0 /\ xf[w].appends = 0)
          /\ xf[w].status = StatusRequestedRangeNotSatisfiable =>
                (xf[w].creates = 0 /\ xf[w].appends = 0
                   /\ wpc[w] = "ret_ok")
          /\ xf[w].status \in OtherStatuses =>
                (xf[w].creates = 0 /\ xf[w].appends = 0
                   /\ wpc[w] = "ret_err")
          /\ xf[w].status = StatusOK => xf[w].appends = 0
          /\ (xf[w].status = StatusPartialContent /\ ~FixedSizeOnly) =>
                xf[w].creates = 0
          /\ (wpc[w] = "copy" /\ ~UseTmp(w)) =>
                /\ xf[w].status = StatusOK => xf[w].creates = 1
                /\ xf[w].status = StatusPartialContent => xf[w].appends = 1
          /\ (wpc[w] = "copy" /\ UseTmp(w)) =>
                (xf[w].creates = 0 /\ xf[w].appends = 0)
          /\ wpc[w] = "second" => (xf[w].creates = 0 /\ xf[w].appends = 0)
          /\ wpc[w] = "copy2" => (xf[w].creates = 1 /\ xf[w].appends = 0)
          /\ (wpc[w] = "ret_ok" /\ ~dryRun
                /\ xf[w].status # StatusRequestedRangeNotSatisfiable) =>
                xf[w].creates + xf[w].appends = 1

\* The server ignored the Range header: the existing file was opened once,
\* with Create, and rewritten in full.
C15_Witness ==
    /\ wpc[1] = "ret_ok"
    /\ xf[1].stat = 1
    /\ xf[1].range = 1
    /\ xf[1].status = StatusOK
    /\ xf[1].creates = 1
    /\ xf[1].appends = 0
    /\ disk[1] = MaxLen

\* ------------------------------------------------------------------ C16
\* C16: on the temp-file path (FixedSizeOnly and no Content-Length) the
\* destination has no entry and Create was not called while the body is
\* read; the second pass starts only with the body exhausted, and its
\* Create is called with the number of bytes read from the body, which is
\* the length of the content; a slurp call that leaves the body copy with
\* an error calls no Create and adds no entry, and its order is counted in
\* errorCount once the worker has left it.
C16_TwoPhase ==
    /\ [](\A w \in Workers :
             (cur[w] # 0 /\ UseTmp(w)) =>
                /\ wpc[w] \in {"copy", "second"} =>
                      /\ xf[w].creates = 0
                      /\ xf[w].flen = xf[w].read
                      /\ \A i \in 1..Len(archive) : archive[i].ord # cur[w]
                /\ wpc[w] = "second" =>
                      (xf[w].remain = 0 /\ xf[w].read = remote[cur[w]])
                /\ wpc[w] = "copy2" =>
                      /\ xf[w].creates = 1
                      /\ archive[Len(archive)].ord = cur[w]
                      /\ archive[Len(archive)].declared = xf[w].read
                      /\ xf[w].read = remote[cur[w]])
    /\ [](\A o \in Orders :
             (ord[o].result = "err" /\ Unattended(o)) => ord[o].failed = 1)
    /\ [][\A w \in Workers :
             (wpc[w] \in {"open", "copy", "second"} /\ UseTmp(w)) =>
                /\ xf'[w].creates # xf[w].creates =>
                      (wpc[w] = "second" /\ xf[w].remain = 0)
                /\ (wpc[w] = "copy" /\ wpc'[w] = "ret_err") =>
                      /\ archive' = archive
                      /\ xf'[w].creates = 0
                      /\ ord'[cur[w]].result = "err"
          ]_vars

\* The second pass of the two-byte file is under way, its entry declared
\* with two bytes, after the other order failed while its body was read.
C16_Witness ==
    /\ tarOut
    /\ \E w \in Workers :
          /\ wpc[w] = "copy2"
          /\ cur[w] = 1
          /\ xf[w].read = PoolRemote[1]
          /\ archive = << [ord |-> 1, declared |-> PoolRemote[1],
                           written |-> 0] >>
    /\ ord[2].failed = 1
    /\ counter > PoolRemote[1]

\* ------------------------------------------------------------------ C17
\* C17: a step changes the byte counter exactly when a worker reads from a
\* response body, and then by the number of bytes that Read returned,
\* whether or not the transfer goes on; the second pass and every other
\* step leave it alone. So the counter is the sum of the bytes read by the
\* transfers under way, the lengths of the orders completed and, for each
\* failed order, the part of its body that was read before the failure.
C17_ByteAccounting ==
    /\ [][
           /\ counter' - counter =
                 Sum([w \in Workers |-> xf'[w].read - xf[w].read],
                     {w \in Workers : cur'[w] = cur[w]})
           /\ \A w \in Workers :
                 /\ (cur'[w] = cur[w] /\ xf'[w].read # xf[w].read) =>
                       wpc[w] = "copy"
                 /\ (wpc[w] \in {"second", "copy2"} /\ wpc'[w] # wpc[w]) =>
                       counter' = counter
          ]_vars
    /\ [](LET inFlight == Sum([w \in Workers |-> xf[w].read],
                              {w \in Workers : cur[w] # 0})
              complete == Sum(remote, {o \in Orders :
                                Unattended(o) /\ ord[o].fileDone = 1})
              failed   == Sum(remote, {o \in Orders :
                                Unattended(o) /\ ord[o].failed = 1})
          IN  /\ counter >= inFlight + complete
              /\ counter <= inFlight + complete + failed
              /\ \A w \in Workers :
                    cur[w] # 0 => xf[w].read <= remote[cur[w]]
              /\ \A w \in Workers :
                    (wpc[w] \in {"second", "copy2"}
                       \/ (wpc[w] = "ret_ok" /\ ~dryRun)) =>
                       xf[w].read = remote[cur[w]])

\* The run has ended with the two-byte file stored through the temp file
\* and the other order failed after its byte was read: the total is 3.
C17_Witness ==
    /\ tarOut
    /\ finalSnap
    /\ counter = PoolRemote[1] + PoolRemote[2]
    /\ ccur = counter
    /\ ord[1].fileDone = 1
    /\ ord[2].failed = 1
    /\ archive = << [ord |-> 1, declared |-> PoolRemote[1],
                     written |-> PoolRemote[1]] >>

\* ------------------------------------------------------------------ C18
\* C18: the coordinator takes the done channels one at a time and in index
\* order, each only when it is closed; a closed channel it has not yet
\* reached can be taken whenever the coordinator is at its select, however
\* early it was closed; the final branch is entered only when all
\* numWorkers channels were taken, and then every worker has closed its
\* channel and left its loop, the queue is closed and empty, every order
\* was sent, and the fileDone messages sent plus errorCount are numFiles.
C18_AllDone ==
    /\ [](
          /\ doneHead \in 1..(numWorkers + 1)
          /\ \A w \in Workers : w < doneHead => done[w]
          /\ (mpc = "coord_select" /\ doneHead <= numWorkers
                /\ done[doneHead]) => ENABLED CoordDone
          /\ (mpc = "coord_final" \/ finalSnap) => AllWorkersDone
          /\ AllWorkersDone =>
                /\ \A w \in Workers :
                      Started(w) => (done[w] /\ wpc[w] = "exited")
                /\ ordersClosed
                /\ orders = << >>
                /\ pushed = numFiles
                /\ Sum([o \in Orders |-> ord[o].fileDone], Orders)
                      + errorCount = numFiles
         )
    /\ [][doneHead' # doneHead =>
             (doneHead' = doneHead + 1 /\ done[doneHead]
                /\ mpc = "coord_select")]_vars

\* The last done channel of the full pool has just been taken; one order
\* failed, the others have their fileDone message.
C18_Witness ==
    /\ mpc = "coord_final"
    /\ numWorkers = MaxWorkers
    /\ numFiles = MaxOrders
    /\ errorCount = 1
    /\ Sum([o \in Orders |-> ord[o].fileDone], Orders) = numFiles - 1

\* ------------------------------------------------------------------ C19
\* C19: the value loaded for the final bytes message is the byte counter,
\* which no worker can change any more: all have left their loops; it is
\* at least the total length of the orders completed and at most that of
\* all orders. The message is sent once, by the step that ends the
\* coordinator, only after all done channels were taken and never after an
\* interrupt; afterwards nothing is sent on the ui channel and the counter
\* and the value sent do not change.
C19_FinalSnapshot ==
    /\ [](
          /\ (mpc = "coord_final" \/ finalSnap) =>
                /\ AllWorkersDone
                /\ msgCount = 0
                /\ ccur = counter
                /\ \A w \in Workers : ~InFlight(w) /\ cur[w] = 0
                /\ counter >= Sum(remote, {o \in Files : ord[o].fileDone = 1})
                /\ counter <= Sum(remote, Files)
          /\ finalSnap => mpc \in {"returned", "mainret", "exit0", "exit1"}
          /\ (mpc = "coord_final" /\ ~uiBusy) => ENABLED CoordFinalSend
         )
    /\ [][
           /\ (finalSnap' /\ ~finalSnap) =>
                 (mpc = "coord_final" /\ mpc' = "returned"
                    /\ ~uiBusy /\ uiBusy' /\ ccur' = ccur)
           /\ finalSnap =>
                 (finalSnap' /\ (uiBusy' => uiBusy) /\ counter' = counter
                    /\ ccur' = ccur /\ msgCount' = msgCount)
          ]_vars

\* The final message, carrying the three bytes of both files, is with the
\* ui goroutine and downloadFiles has returned.
C19_Witness ==
    /\ finalSnap
    /\ mpc = "returned"
    /\ uiBusy
    /\ ~tarOut
    /\ ccur = PoolRemote[1] + PoolRemote[2]
    /\ \A o \in Files : ord[o].fileDone = 1
    /\ numFiles = 2

====
